---------------------------- MODULE Spec2Model ----------------------------
(***************************************************************************)
(* The Lumin React Native tracker (class Lumin, version 0.4.2): first-open *)
(* check, session lifecycle and the four "active user" cadences, with the  *)
(* asynchronous boundaries of the code made explicit.                      *)
(*                                                                         *)
(* Time is counted in ticks, TicksPerSec ticks to the second, so that the  *)
(* second resolution of Date.prototype.toString() is visible.  The         *)
(* calendar is scaled down: a day is DaySecs seconds, a week two days, a   *)
(* month three days, a year six days.                                      *)
(*                                                                         *)
(* Scheduling is that of the JavaScript event loop the tracker runs on:    *)
(* one callback at a time, each run to completion, and the reactions of a  *)
(* promise that is already settled (the microtasks, `micro`) before any    *)
(* other callback.                                                         *)
(*                                                                         *)
(* AsyncStorage executes the requests it is handed one at a time, in the   *)
(* order they were issued.  The outcome of a request is therefore fixed    *)
(* when it is issued: a setItem/removeItem changes `store` in the step     *)
(* that issues it, a getItem takes its result in the step that issues it,  *)
(* and the code awaiting a result (a task) runs later.  Spec delivers the  *)
(* results in the order of the requests; SpecAnyOrder delivers them in any *)
(* order.  The transport answers requests in the order they were made; no  *)
(* step of the tracker reads the state of a request.                       *)
(***************************************************************************)
EXTENDS Integers, Sequences, FiniteSets, TLC

(* ------------------------------ bounds -------------------------------- *)
TicksPerSec == 2
DaySecs == 1
MaxNow == 2
MaxOps == 5
MaxInFlight == 1
MaxLaunches == 2
MaxSignals == 2
MaxEvals == 2
MaxCustom == 1
MaxResets == 1
MaxFailures == 1
MaxInterval == 1
MaxTokenLen == 5

(* ------------------------- values and helpers ------------------------- *)
\* null / undefined: an absent storage item, an unset interval, a null diff
None == -1

Cadences == {"daily", "weekly", "monthly", "yearly"}

AppStates == {"active", "inactive", "background"}

Keys == {"firstOpenTime", "endOfLastSession", "lastDauTracked",
         "lastWauTracked", "lastMauTracked", "lastYauTracked"}

\* faulty variant: one key for the four cadences
asyncStorageKeys_M(c) == "lastDauTracked"

asyncStorageKeys(c) ==
    CASE c = "daily" -> "lastDauTracked"
      [] c = "weekly" -> "lastWauTracked"
      [] c = "monthly" -> "lastMauTracked"
      [] c = "yearly" -> "lastYauTracked"

EventType(c) ==
    CASE c = "daily" -> "DAILY_ACTIVE_USER"
      [] c = "weekly" -> "WEEKLY_ACTIVE_USER"
      [] c = "monthly" -> "MONTHLY_ACTIVE_USER"
      [] c = "yearly" -> "YEARLY_ACTIVE_USER"

CadenceEvents == {EventType(c) : c \in Cadences}

\* faulty variant: the whole seconds dropped instead of the fraction
DateToString_M(t) == t % TicksPerSec

\* new Date().toString() keeps whole seconds only; new Date(<that string>)
\* gives back the instant with its milliseconds dropped.
DateToString(t) == t - (t % TicksPerSec)

\* date-fns differenceInSeconds: the difference truncated towards zero
differenceInSeconds(a, b) ==
    IF a >= b THEN (a - b) \div TicksPerSec ELSE 0 - ((b - a) \div TicksPerSec)

\* faulty variant: not strictly before
isBefore_M(a, b) == a <= b

isBefore(a, b) == a < b

PeriodTicks(c) ==
    CASE c = "daily" -> DaySecs * TicksPerSec
      [] c = "weekly" -> 2 * DaySecs * TicksPerSec
      [] c = "monthly" -> 3 * DaySecs * TicksPerSec
      [] c = "yearly" -> 6 * DaySecs * TicksPerSec

\* startOfToday(), startOfWeek(now), startOfMonth(now), startOfYear(now)
startOf(c, t) == t - (t % PeriodTicks(c))

\* a JavaScript condition on a number that may be undefined: 0 is falsy
Truthy(n) == n # None /\ n # 0


(* ------------------------- token and objects -------------------------- *)
\* a string is the sequence of its characters
Chars == {"a", ":", " "}

Tokens == UNION {[1 .. n -> Chars] : n \in 0 .. MaxTokenLen}

\* undefined, where a string is expected
Undefined == <<"undefined">>

RECURSIVE trimStart(_)
trimStart(s) == IF s # <<>> /\ Head(s) = " " THEN trimStart(Tail(s)) ELSE s

RECURSIVE trimEnd(_)
trimEnd(s) ==
    IF s # <<>> /\ s[Len(s)] = " "
    THEN trimEnd(SubSeq(s, 1, Len(s) - 1)) ELSE s

\* String.prototype.trim()
trim(s) == trimEnd(trimStart(s))

\* String.prototype.split(':'): every piece between two separators
RECURSIVE split(_)
split(s) ==
    IF \A i \in 1 .. Len(s) : s[i] # ":"
    THEN <<s>>
    ELSE LET i == CHOOSE i \in 1 .. Len(s) :
                      s[i] = ":" /\ \A j \in 1 .. i - 1 : s[j] # ":"
         IN <<SubSeq(s, 1, i - 1)>> \o split(SubSeq(s, i + 1, Len(s)))

\* const [appId, appToken] = ...: the n-th element, undefined when missing
Element(pieces, n) == IF n <= Len(pieces) THEN pieces[n] ELSE Undefined

\* !x for a string that may be undefined
Not(x) == x = Undefined \/ x = <<>>

\* faulty variant: only the first half tested
Malformed_M(appId, appToken) == Not(appId)

\* if (!appId || !appToken) throw new Error('Lumin token malformed!')
Malformed(appId, appToken) == Not(appId) \/ Not(appToken)

\* the part of the constructor that reads the token: this.id, this.token
Construct(tok) ==
    LET pieces == split(trim(tok))
        appId == Element(pieces, 1)
        appToken == Element(pieces, 2)
    IN IF Malformed(appId, appToken)
       THEN [raw |-> tok, status |-> "threw", id |-> Undefined,
             token |-> Undefined]
       ELSE [raw |-> tok, status |-> "ok", id |-> appId, token |-> appToken]

NotConstructed(tok) ==
    [raw |-> tok, status |-> "new", id |-> Undefined, token |-> Undefined]

GoodToken == <<"a", ":", "a">>

\* this.info
SdkInfo ==
    [platform |-> "ios", platformVersion |-> "1", luminVersion |-> "0.4.2"]

CallerInfo == [platform |-> "caller"]

\* {}
NoData == [k \in {} |-> TRUE]

\* { ...a, ...b }: the properties of b win
Spread(a, b) ==
    [k \in (DOMAIN a) \cup (DOMAIN b) |-> IF k \in DOMAIN b THEN b[k] ELSE a[k]]

\* the data objects an application passes to trackCustomEvent
CallerData ==
    {NoData, "x" :> 1, "$info" :> CallerInfo, "$custom" :> FALSE}


(* ------------------------------- state -------------------------------- *)
VARIABLES
    now,               \* the clock, in ticks
    cfg,               \* this.config, fixed at construction
    store,             \* AsyncStorage: key -> stored instant, or None
    appState,          \* this.appState
    inited,            \* init() has run in this process (listener registered)
    sessionStartTime,  \* this.sessionStartTime
    tasks,             \* code awaiting a storage result, oldest request first
    micro,             \* reactions of settled promises, to run next
    sends,             \* fetch() requests in flight, oldest first
    failed,            \* fetch() requests that were rejected
    nLaunches, nSignals, nEvals, nStarts, nCustom, nResets, nTicks,
    emits,             \* per cadence, the instants its event was handed to fetch
    nFirstOpen,        \* FIRST_OPEN events handed to fetch
    lastFirstOpen,     \* the last first-open check: launch, value found, outcome
    sessionDepth,      \* startSession calls minus endSession calls, this process
    lastEnd,           \* the instant endSession last ran on this store, or None
    lastStart,         \* the last SESSION_START handed to fetch
    lastEval,          \* the last decision of a cadence evaluator
    instance,          \* the token given to new Lumin(...) and what came of it
    lastReset,         \* what held when clearLuminItemsFromAsyncStorage last settled
    lost               \* storage reads that were rejected

vars == <<now, cfg, store, appState, inited, sessionStartTime, tasks, micro,
          sends, failed, nLaunches, nSignals, nEvals, nStarts, nCustom, nResets,
          nTicks, emits, nFirstOpen, lastFirstOpen, sessionDepth, lastEnd,
          lastStart, lastEval, instance, lastReset, lost>>

firstOpenLog == <<nFirstOpen, lastFirstOpen>>

counters == <<nLaunches, nSignals, nEvals, nStarts, nCustom, nResets, nTicks>>

defaultConfig ==
    [automaticallyTrackActiveUsers |-> TRUE, logError |-> TRUE,
     trackingIntervals |-> [c \in Cadences |-> None]]

\* new Lumin(token, config): { ...defaultConfig, ...config }, for a config
\* that sets at most one field (trackingIntervals: the same for each cadence)
Configs ==
    {defaultConfig,
     [defaultConfig EXCEPT !.automaticallyTrackActiveUsers = FALSE],
     [defaultConfig EXCEPT !.logError = FALSE]}
    \cup {[defaultConfig EXCEPT !.trackingIntervals = [c \in Cadences |-> i]] :
             i \in 0 .. MaxInterval}

Task(k, c, v, i, st, pe) ==
    [k |-> k, cad |-> c, val |-> v, id |-> i, st |-> st, pe |-> pe]

NoStart == [tsls |-> None, st |-> None, pe |-> None, n |-> 0]

NoEval == [cad |-> "none", last |-> None, at |-> None, emitted |-> FALSE]

Remove(q, i) == SubSeq(q, 1, i - 1) \o SubSeq(q, i + 1, Len(q))

\* new Lumin(token, config) returned an object
Constructed == instance.status = "ok"

\* no microtask is waiting: the event loop takes the next callback
Idle == micro = <<>>

\* what has happened so far: launches, lifecycle signals, evaluation
\* rounds, calls of the public operations, failed requests, clock ticks
OpsUsed ==
    nLaunches + nSignals + nEvals + nCustom + nResets + nTicks
      + Cardinality(failed)

Budget(k) == OpsUsed + k <= MaxOps

AutoEvals == IF cfg.automaticallyTrackActiveUsers THEN 1 ELSE 0

(* ----------------------------- track() -------------------------------- *)
\* The promise an async function returns settles when its body ends.  The
\* body of track() calls fetch(...).then(...).catch(...) and neither awaits
\* nor returns that chain, so the promise is fulfilled at once, whatever
\* becomes of the request.
TrackPromise == "resolved"

\* data: { $info: this.info, ...data }
EventData(data) == Spread("$info" :> SdkInfo, data)

\* fetch(...) of one event record: type, data, appToken (environment is a
\* constant of the configuration)
Fetch(type, data, i) ==
    [type |-> type, data |-> EventData(data), appToken |-> instance.token,
     id |-> i, promise |-> TrackPromise, logged |-> FALSE]

\* (at most MaxInFlight requests are in flight at a time)
track(type, data, i) ==
    /\ Len(sends) < MaxInFlight
    /\ sends' = Append(sends, Fetch(type, data, i))

\* .then((res) => ...): the request completed
FetchResolved ==
    /\ Idle
    /\ sends # <<>>
    /\ sends' = Tail(sends)
    /\ UNCHANGED <<now, cfg, store, appState, inited, sessionStartTime, tasks,
                   micro, failed, counters, emits, firstOpenLog, sessionDepth,
                   lastEnd, lastStart, lastEval,
                   instance, lastReset, lost>>

\* .catch((err) => { if (logError) console.log(err); throw err; })
FetchRejected ==
    /\ Idle
    /\ sends # <<>>
    /\ Cardinality(failed) < MaxFailures
    /\ Budget(1)
    /\ sends' = Tail(sends)
    /\ failed' = failed \cup {[Head(sends) EXCEPT !.logged = cfg.logError]}
    /\ UNCHANGED <<now, cfg, store, appState, inited, sessionStartTime, tasks,
                   micro, counters, emits, firstOpenLog, sessionDepth, lastEnd,
                   lastStart, lastEval,
                   instance, lastReset, lost>>

(* ------------------------ cadence evaluators -------------------------- *)
\* this.config.trackingIntervals?.dailyActiveUser ? ... : ...
HasInterval(c) == Truthy(cfg.trackingIntervals[c])

timeCondition(c, last, t) ==
    IF HasInterval(c)
    THEN differenceInSeconds(t, last) > cfg.trackingIntervals[c]
    ELSE isBefore(last, startOf(c, t))

\* faulty variant: the condition ignored
ShouldEmit_Always(c, last, t) == TRUE

\* faulty variant: the else branch dropped
ShouldEmit_M(c, last, t) == timeCondition(c, last, t)

\* if (lastTimeActive) { if (timeCondition) ... } else { ... }
ShouldEmit(c, last, t) ==
    IF last # None THEN timeCondition(c, last, t) ELSE TRUE

EvalTask(c, i) == Task("eval", c, store[asyncStorageKeys(c)], i, None, None)

\* trackActiveUser(): the getItem calls of the four evaluators, in order
EvalTasks(i) ==
    <<EvalTask("daily", i), EvalTask("weekly", i),
      EvalTask("monthly", i), EvalTask("yearly", i)>>

\* trackDailyActiveUser() etc. after its await
EvalResume(i) ==
    LET t == tasks[i] IN
    /\ t.k = "eval"
    /\ tasks' = Remove(tasks, i)
    /\ IF ShouldEmit(t.cad, t.val, now)
       THEN /\ track(EventType(t.cad), NoData, t.id)
            /\ emits' = [emits EXCEPT ![t.cad] = Append(@, now)]
            /\ micro' = Append(micro, Task("then", t.cad, None, t.id, None, None))
            /\ lastEval' = [cad |-> t.cad, last |-> t.val, at |-> now,
                            emitted |-> TRUE]
       ELSE /\ lastEval' = [cad |-> t.cad, last |-> t.val, at |-> now,
                            emitted |-> FALSE]
            /\ UNCHANGED <<sends, emits, micro>>
    /\ UNCHANGED <<now, cfg, store, appState, inited, sessionStartTime, failed,
                   counters, firstOpenLog, sessionDepth, lastEnd, lastStart,
                   instance, lastReset, lost>>

\* .then(() => { AsyncStorage.setItem(key, new Date().toString()) })
ThenCallback ==
    /\ micro # <<>>
    /\ store' = [store EXCEPT
                   ![asyncStorageKeys(Head(micro).cad)] = DateToString(now)]
    /\ micro' = Tail(micro)
    /\ UNCHANGED <<now, cfg, appState, inited, sessionStartTime, tasks, sends,
                   failed, counters, emits, firstOpenLog, sessionDepth, lastEnd,
                   lastStart, lastEval,
                   instance, lastReset, lost>>

(* --------------------------- first open ------------------------------- *)
\* setFirstOpenTime(): AsyncStorage.getItem(firstOpenTime).then(...)
FirstOpenTask ==
    Task("first", "none", store["firstOpenTime"], nLaunches, None, None)

NoFirstOpen == [n |-> 0, found |-> None, emitted |-> FALSE]

\* faulty variant: the absence test dropped
FirstOpenAbsent_M(v) == TRUE

\* if (!firstOpenTime)
FirstOpenAbsent(v) == v = None

\* (firstOpenTime) => { if (!firstOpenTime) { setItem(...); track('FIRST_OPEN') } }
FirstOpenResume(i) ==
    LET t == tasks[i] IN
    /\ t.k = "first"
    /\ tasks' = Remove(tasks, i)
    /\ IF FirstOpenAbsent(t.val)
       THEN /\ store' = [store EXCEPT !["firstOpenTime"] = DateToString(now)]
            /\ track("FIRST_OPEN", NoData, nFirstOpen + 1)
            /\ nFirstOpen' = nFirstOpen + 1
            /\ lastFirstOpen' = [n |-> t.id, found |-> t.val, emitted |-> TRUE]
       ELSE /\ lastFirstOpen' = [n |-> t.id, found |-> t.val, emitted |-> FALSE]
            /\ UNCHANGED <<store, sends, nFirstOpen>>
    /\ UNCHANGED <<now, cfg, appState, inited, sessionStartTime, micro, failed,
                   counters, emits, sessionDepth, lastEnd, lastStart, lastEval,
                   instance, lastReset, lost>>

(* ----------------------------- sessions ------------------------------- *)
\* startSession() up to its await: the getItem of endOfLastSession.  The
\* task remembers, for the record only, when the session started (st) and
\* when the previous one ended (pe).
StartTask(i) ==
    Task("start", "none", store["endOfLastSession"], i, now, lastEnd)

\* faulty variant: the null test dropped
timeSinceLastSession_M(v, t) == differenceInSeconds(t, v)

\* let diff = null; if (lastSessionEndTime) diff = differenceInSeconds(...)
timeSinceLastSession(v, t) ==
    IF v # None THEN differenceInSeconds(t, v) ELSE None

\* startSession() after its await
StartResume(i) ==
    LET t == tasks[i] IN
    /\ t.k = "start"
    /\ tasks' = Remove(tasks, i)
    /\ lastStart' = [tsls |-> timeSinceLastSession(t.val, now),
                     st |-> t.st, pe |-> t.pe, n |-> t.id]
    /\ track("SESSION_START",
             "timeSinceLastSession" :> timeSinceLastSession(t.val, now), t.id)
    /\ UNCHANGED <<now, cfg, store, appState, inited, sessionStartTime, micro,
                   failed, counters, emits, firstOpenLog, sessionDepth, lastEnd,
                   lastEval,
                   instance, lastReset, lost>>

(* ------------------------- init and listener -------------------------- *)
\* new Lumin(token, config): the token is read; when it is malformed the
\* constructor throws and there is no tracker to call
constructor ==
    /\ instance.status = "new"
    /\ instance' = Construct(instance.raw)
    /\ sessionStartTime' = now
    /\ UNCHANGED <<now, cfg, store, appState, inited, tasks, micro, sends,
                   failed, counters, emits, firstOpenLog, sessionDepth, lastEnd,
                   lastStart, lastEval, lastReset, lost>>

\* faulty variant: the flag ignored
AutoEvalTasks_M(i) == EvalTasks(i)

\* if (this.config.automaticallyTrackActiveUsers) this.trackActiveUser()
AutoEvalTasks(i) ==
    IF cfg.automaticallyTrackActiveUsers THEN EvalTasks(i) ELSE <<>>

\* init(): addEventListener, setFirstOpenTime(), trackActiveUser() when
\* enabled, startSession()
init ==
    /\ Idle
    /\ Constructed
    /\ ~inited
    /\ nEvals + AutoEvals <= MaxEvals
    /\ Budget(AutoEvals)
    /\ inited' = TRUE
    /\ nEvals' = nEvals + AutoEvals
    /\ tasks' = tasks \o <<FirstOpenTask>> \o AutoEvalTasks(nEvals + 1)
                  \o <<StartTask(nStarts + 1)>>
    /\ nStarts' = nStarts + 1
    /\ sessionStartTime' = now
    /\ sessionDepth' = sessionDepth + 1
    /\ UNCHANGED <<now, cfg, store, appState, micro, sends, failed, nLaunches,
                   nSignals, nCustom, nResets, nTicks, emits, firstOpenLog, lastEnd,
                   lastStart, lastEval,
                   instance, lastReset, lost>>

\* this.appState.match(/inactive|background/) && nextAppState === 'active'
ToForeground(next) == appState \in {"inactive", "background"} /\ next = "active"

\* this.appState === 'active' && nextAppState.match(/inactive|background/)
ToBackground(next) == appState = "active" /\ next \in {"inactive", "background"}

\* endSession(): differenceInSeconds(new Date(), this.sessionStartTime)
duration == differenceInSeconds(now, sessionStartTime)

\* the AppState 'change' listener; endSession() is the ToBackground branch
AppStateChange(next) ==
    /\ Idle
    /\ inited
    /\ next # appState
    /\ nSignals < MaxSignals
    /\ Budget(1)
    /\ nSignals' = nSignals + 1
    /\ appState' = next
    /\ IF ToForeground(next)
       THEN /\ nEvals + AutoEvals <= MaxEvals
            /\ Budget(1 + AutoEvals)
            /\ nEvals' = nEvals + AutoEvals
            /\ tasks' = tasks \o AutoEvalTasks(nEvals + 1)
                          \o <<StartTask(nStarts + 1)>>
            /\ nStarts' = nStarts + 1
            /\ sessionStartTime' = now
            /\ sessionDepth' = sessionDepth + 1
            /\ UNCHANGED <<store, sends, lastEnd>>
       ELSE IF ToBackground(next)
       THEN /\ track("SESSION_END", "duration" :> duration, nStarts)
            /\ store' = [store EXCEPT !["endOfLastSession"] = DateToString(now)]
            /\ lastEnd' = now
            /\ sessionDepth' = sessionDepth - 1
            /\ UNCHANGED <<nEvals, tasks, nStarts, sessionStartTime>>
       ELSE UNCHANGED <<nEvals, tasks, nStarts, sessionStartTime, sessionDepth,
                        store, sends, lastEnd>>
    /\ UNCHANGED <<now, cfg, inited, micro, failed, nLaunches, nCustom, nResets,
                   nTicks,
                   emits, firstOpenLog, lastStart, lastEval,
                   instance, lastReset, lost>>

\* the process ends and the app is launched again: new Lumin(token, config)
\* on the same store; what the old process was waiting for is gone
Relaunch(a) ==
    /\ Idle
    /\ inited
    /\ nLaunches < MaxLaunches
    /\ Budget(1)
    /\ nLaunches' = nLaunches + 1
    /\ appState' = a
    /\ inited' = FALSE
    /\ sessionStartTime' = now
    /\ sessionDepth' = 0
    /\ tasks' = <<>>
    /\ sends' = <<>>
    /\ UNCHANGED <<now, cfg, store, micro, failed, nSignals, nEvals, nStarts,
                   nCustom, nResets, nTicks, emits, firstOpenLog, lastEnd, lastStart, lastEval,
                   instance, lastReset, lost>>

(* ------------------------- public operations -------------------------- *)
\* trackActiveUser(), called by the application
trackActiveUser ==
    /\ Idle
    /\ Constructed
    /\ nEvals < MaxEvals
    /\ Budget(1)
    /\ nEvals' = nEvals + 1
    /\ tasks' = tasks \o EvalTasks(nEvals + 1)
    /\ UNCHANGED <<now, cfg, store, appState, inited, sessionStartTime, micro,
                   sends, failed, nLaunches, nSignals, nStarts, nCustom, nResets,
                   nTicks, emits, firstOpenLog, sessionDepth, lastEnd, lastStart, lastEval,
                   instance, lastReset, lost>>

\* trackCustomEvent(event, data): this.track(event, { $custom: true, ...data })
CustomData(data) == Spread("$custom" :> TRUE, data)

trackCustomEvent(data) ==
    /\ Idle
    /\ Constructed
    /\ nCustom < MaxCustom
    /\ Budget(1)
    /\ nCustom' = nCustom + 1
    /\ track("CUSTOM", CustomData(data), nCustom + 1)
    /\ UNCHANGED <<now, cfg, store, appState, inited, sessionStartTime, tasks,
                   micro, failed, nLaunches, nSignals, nEvals, nStarts, nResets,
                   nTicks, emits, firstOpenLog, sessionDepth, lastEnd, lastStart, lastEval,
                   instance, lastReset, lost>>

\* faulty variant: endOfLastSession forgotten
removeItems_M(st) ==
    [k \in Keys |-> IF k = "endOfLastSession" THEN st[k] ELSE None]

\* the six AsyncStorage.removeItem calls
removeItems(st) == [k \in Keys |-> None]

\* the calls made on the tracker so far, lifecycle signals included
Calls == nLaunches + nSignals + nEvals + nStarts + nCustom

\* quiet: nothing was called between the call of the reset and its settling
NoReset == [n |-> 0, evals |-> 0, present |-> {}, quiet |-> TRUE]

\* clearLuminItemsFromAsyncStorage() up to its await: six removeItem calls
clearLuminItemsFromAsyncStorage ==
    /\ Idle
    /\ Constructed
    /\ nResets < MaxResets
    /\ Budget(1)
    /\ nResets' = nResets + 1
    /\ store' = removeItems(store)
    /\ tasks' = Append(tasks,
                       Task("reset", "none", Calls, nResets + 1, None, None))
    /\ UNCHANGED <<now, cfg, appState, inited, sessionStartTime, micro, sends,
                   failed, nLaunches, nSignals, nEvals, nStarts, nCustom, nTicks, emits,
                   firstOpenLog, sessionDepth, lastEnd, lastStart, lastEval,
                   instance, lastReset, lost>>

\* await Promise.all([...]) settles
ClearSettled(i) ==
    LET t == tasks[i] IN
    /\ t.k = "reset"
    /\ tasks' = Remove(tasks, i)
    /\ lastReset' = [n |-> t.id, evals |-> nEvals,
                      present |-> {k \in Keys : store[k] # None},
                      quiet |-> (t.val = Calls)]
    /\ UNCHANGED <<now, cfg, store, appState, inited, sessionStartTime, micro,
                   sends, failed, counters, emits, firstOpenLog, sessionDepth,
                   lastEnd, lastStart, lastEval, instance, lost>>

(* ------------------------- storage failures --------------------------- *)
\* faulty variant: the callers awaited one another, so that a rejection
\* ends everything still waiting
AfterRejection_M(q) == <<>>

\* the evaluators, the first-open check and startSession are each called
\* without await: a rejection ends the one that was waiting and no other
AfterRejection(q) == Tail(q)

\* AsyncStorage.getItem(...) rejects: the code awaiting it does not run
GetItemRejected ==
    /\ Idle
    /\ tasks # <<>>
    /\ Head(tasks).k \in {"eval", "first", "start"}
    /\ Cardinality(lost) + Cardinality(failed) < MaxFailures
    /\ lost' = lost \cup {Head(tasks)}
    /\ tasks' = AfterRejection(tasks)
    /\ UNCHANGED <<now, cfg, store, appState, inited, sessionStartTime, micro,
                   sends, failed, counters, emits, firstOpenLog, sessionDepth,
                   lastEnd, lastStart, lastEval, instance, lastReset>>

(* ------------------------------ clock --------------------------------- *)
Tick ==
    /\ Idle
    /\ now < MaxNow
    /\ Budget(1)
    /\ now' = now + 1
    /\ nTicks' = nTicks + 1
    /\ UNCHANGED <<cfg, store, appState, inited, sessionStartTime, tasks, micro,
                   sends, failed, nLaunches, nSignals, nEvals, nStarts, nCustom,
                   nResets, emits, firstOpenLog, sessionDepth, lastEnd, lastStart,
                   lastEval,
                   instance, lastReset, lost>>

(* -------------------------- specifications ---------------------------- *)
\* a fresh install, the tracker constructed and init() not yet called
Init ==
    /\ now = 0
    /\ cfg \in Configs
    /\ store = [k \in Keys |-> None]
    /\ appState \in AppStates
    /\ inited = FALSE
    /\ sessionStartTime = 0
    /\ tasks = <<>>
    /\ micro = <<>>
    /\ sends = <<>>
    /\ failed = {}
    /\ nLaunches = 1 /\ nSignals = 0 /\ nEvals = 0 /\ nStarts = 0
    /\ nCustom = 0 /\ nResets = 0 /\ nTicks = 0
    /\ emits = [c \in Cadences |-> <<>>]
    /\ nFirstOpen = 0
    /\ lastFirstOpen = NoFirstOpen
    /\ sessionDepth = 0
    /\ lastEnd = None
    /\ lastStart = NoStart
    /\ lastEval = NoEval
    /\ instance = Construct(GoodToken)
    /\ lastReset = NoReset
    /\ lost = {}

\* the code awaiting the i-th pending storage result runs
Resume(i) ==
    /\ Idle
    /\ i \in 1 .. Len(tasks)
    /\ \/ EvalResume(i)
       \/ FirstOpenResume(i)
       \/ StartResume(i)
       \/ ClearSettled(i)

Environment ==
    \/ init
    \/ \E next \in AppStates : AppStateChange(next)
    \/ \E a \in AppStates : Relaunch(a)
    \/ trackActiveUser
    \/ \E data \in CallerData : trackCustomEvent(data)
    \/ clearLuminItemsFromAsyncStorage
    \/ FetchResolved
    \/ FetchRejected
    \/ Tick

Next ==
    \/ Environment
    \/ Resume(1)
    \/ ThenCallback

Spec == Init /\ [][Next]_vars

\* one process, driven by init() and lifecycle signals only
NextLifecycle ==
    \/ init
    \/ \E next \in AppStates : AppStateChange(next)
    \/ FetchResolved
    \/ FetchRejected
    \/ Tick
    \/ Resume(1)
    \/ ThenCallback

SpecLifecycle == Init /\ [][NextLifecycle]_vars

\* the event loop runs every callback that is ready, and every request is
\* answered
FairLifecycle ==
    /\ SpecLifecycle
    /\ WF_vars(Resume(1))
    /\ WF_vars(ThenCallback)
    /\ WF_vars(FetchResolved)

\* app launches on one store, each with its init() and lifecycle signals
NextLaunches ==
    \/ init
    \/ \E next \in AppStates : AppStateChange(next)
    \/ \E a \in AppStates : Relaunch(a)
    \/ FetchResolved
    \/ FetchRejected
    \/ Tick
    \/ Resume(1)
    \/ ThenCallback

SpecLaunches == Init /\ [][NextLaunches]_vars

\* storage results delivered in any order
NextAnyOrder ==
    \/ Environment
    \/ \E i \in 1 .. Len(tasks) : Resume(i)
    \/ ThenCallback

SpecAnyOrder == Init /\ [][NextAnyOrder]_vars

\* a fresh install on which init() is the only call and no lifecycle signal
\* arrives; store and transport work
NextFresh ==
    \/ init
    \/ FetchResolved
    \/ Tick
    \/ Resume(1)
    \/ ThenCallback

SpecFresh == Init /\ [][NextFresh]_vars

FairFresh ==
    /\ SpecFresh
    /\ WF_vars(Resume(1))
    /\ WF_vars(ThenCallback)
    /\ WF_vars(FetchResolved)

\* one process with its lifecycle, in which the application may reset
NextReset ==
    \/ NextLifecycle
    \/ clearLuminItemsFromAsyncStorage

SpecReset == Init /\ [][NextReset]_vars

\* one process with its lifecycle, on a store whose reads may fail
NextFailures ==
    \/ NextLifecycle
    \/ GetItemRejected

SpecFailures == Init /\ [][NextFailures]_vars

FairFailures ==
    /\ SpecFailures
    /\ WF_vars(Resume(1))
    /\ WF_vars(ThenCallback)
    /\ WF_vars(FetchResolved)

\* a device that has run the app before: firstOpenTime is set, and the last
\* session end and the four markers are absent or date from instant 0; the
\* tracker is constructed at any later instant
InitReturning ==
    /\ now \in 0 .. MaxNow
    /\ cfg \in Configs
    /\ \E e, m \in {None, 0} :
         /\ store = [k \in Keys |->
                      IF k = "firstOpenTime" THEN 0
                      ELSE IF k = "endOfLastSession" THEN e ELSE m]
         /\ lastEnd = e
    /\ appState \in AppStates
    /\ inited = FALSE
    /\ sessionStartTime = now
    /\ tasks = <<>>
    /\ micro = <<>>
    /\ sends = <<>>
    /\ failed = {}
    /\ nLaunches = 1 /\ nSignals = 0 /\ nEvals = 0 /\ nStarts = 0
    /\ nCustom = 0 /\ nResets = 0 /\ nTicks = 0
    /\ emits = [c \in Cadences |-> <<>>]
    /\ nFirstOpen = 1
    /\ lastFirstOpen = NoFirstOpen
    /\ sessionDepth = 0
    /\ lastStart = NoStart
    /\ lastEval = NoEval
    /\ instance = Construct(GoodToken)
    /\ lastReset = NoReset
    /\ lost = {}

SpecReturning == InitReturning /\ [][NextLaunches]_vars

\* new Lumin(token) for any token, then init() and custom events on the
\* tracker when there is one
InitTokens ==
    /\ now = 0
    /\ cfg = defaultConfig
    /\ store = [k \in Keys |-> None]
    /\ appState = "active"
    /\ inited = FALSE
    /\ sessionStartTime = 0
    /\ tasks = <<>>
    /\ micro = <<>>
    /\ sends = <<>>
    /\ failed = {}
    /\ nLaunches = 1 /\ nSignals = 0 /\ nEvals = 0 /\ nStarts = 0
    /\ nCustom = 0 /\ nResets = 0 /\ nTicks = 0
    /\ emits = [c \in Cadences |-> <<>>]
    /\ nFirstOpen = 0
    /\ lastFirstOpen = NoFirstOpen
    /\ sessionDepth = 0
    /\ lastEnd = None
    /\ lastStart = NoStart
    /\ lastEval = NoEval
    /\ \E tok \in Tokens : instance = NotConstructed(tok)
    /\ lastReset = NoReset
    /\ lost = {}

NextTokens ==
    \/ constructor
    \/ init
    \/ \E data \in CallerData : trackCustomEvent(data)
    \/ FetchResolved
    \/ Resume(1)
    \/ ThenCallback

SpecTokens == InitTokens /\ [][NextTokens]_vars

(* One evaluation round on a device with a history: the tracker is up and  *)
(* idle at any instant of the first two years, and the four markers hold   *)
(* nothing or the whole second of an earlier instant.                      *)
EvalHorizon == 2 * PeriodTicks("yearly")

InitEval ==
    /\ now \in 0 .. EvalHorizon
    /\ cfg \in Configs
    /\ \E m \in {None} \cup {DateToString(t) : t \in 0 .. now} :
         store = [k \in Keys |->
                    IF k \in {asyncStorageKeys(c) : c \in Cadences}
                    THEN m ELSE None]
    /\ appState = "active"
    /\ inited = TRUE
    /\ sessionStartTime = now
    /\ tasks = <<>>
    /\ micro = <<>>
    /\ sends = <<>>
    /\ failed = {}
    /\ nLaunches = 1 /\ nSignals = 0 /\ nEvals = 0 /\ nStarts = 1
    /\ nCustom = 0 /\ nResets = 0 /\ nTicks = 0
    /\ emits = [c \in Cadences |-> <<>>]
    /\ nFirstOpen = 0
    /\ lastFirstOpen = NoFirstOpen
    /\ sessionDepth = 1
    /\ lastEnd = None
    /\ lastStart = NoStart
    /\ lastEval = NoEval
    /\ instance = Construct(GoodToken)
    /\ lastReset = NoReset
    /\ lost = {}

NextEval ==
    \/ trackActiveUser
    \/ FetchResolved
    \/ Tick
    \/ Resume(1)
    \/ ThenCallback

SpecEval == InitEval /\ [][NextEval]_vars

\* one trackActiveUser() call, its four storage reads answered in any order
NextEvalAnyOrder ==
    \/ nEvals = 0 /\ trackActiveUser
    \/ FetchResolved
    \/ Tick
    \/ \E i \in 1 .. Len(tasks) : Resume(i)
    \/ ThenCallback

SpecEvalAnyOrder == InitEval /\ [][NextEvalAnyOrder]_vars

(* ------------------------------ claims -------------------------------- *)
\* the then-callback of the evaluation that made request s
ThenOf(s) ==
    Task("then", CHOOSE c \in Cadences : EventType(c) = s.type, None, s.id,
         None, None)

InMicro(t) == \E j \in 1 .. Len(micro) : micro[j] = t

\* C1: for a cadence with no override interval, whatever init() and the
\* lifecycle signals do, no two <PERIOD>_ACTIVE_USER events are emitted in
\* the same calendar window of that period.
C1_OncePerWindow ==
    \A c \in Cadences :
        cfg.trackingIntervals[c] = None =>
            \A i, j \in 1 .. Len(emits[c]) :
                i < j => startOf(c, emits[c][i]) # startOf(c, emits[c][j])

\* C2: over app launches on one store with no reset, FIRST_OPEN is emitted
\* at most once: it is emitted exactly when firstOpenTime is persisted, which
\* the first-open check does only when the key is absent.
C2_FirstOpenOnce ==
    /\ nFirstOpen <= 1
    /\ nFirstOpen = 1 <=> store["firstOpenTime"] # None
    /\ lastFirstOpen.n > 0 =>
           (lastFirstOpen.emitted <=> lastFirstOpen.found = None)

\* the second launch has made its check, found the key of the first
\* launch, and neither emitted nor written
C2_SecondLaunchSilent ==
    /\ lastFirstOpen.n = 2
    /\ lastFirstOpen.found # None
    /\ ~lastFirstOpen.emitted
    /\ nFirstOpen = 1
    /\ store["firstOpenTime"] = lastFirstOpen.found

AwaitsAbsent(c) ==
    \E i \in 1 .. Len(tasks) :
        tasks[i].k = "eval" /\ tasks[i].cad = c /\ tasks[i].val = None

\* C3: an evaluator that finds its marker absent emits its event, whatever
\* override interval is configured, and the marker is eventually written
\* with the current instant (at the resolution of the stored string).
C3_AbsentEmitsAndWrites ==
    /\ [](lastEval.cad # "none" /\ lastEval.last = None => lastEval.emitted)
    /\ \A c \in Cadences :
         AwaitsAbsent(c) ~> (store[asyncStorageKeys(c)] = DateToString(now))

C3_AbsentWithOverride ==
    /\ lastEval.cad # "none"
    /\ HasInterval(lastEval.cad)
    /\ lastEval.last = None
    /\ lastEval.emitted
    /\ micro = <<>>
    /\ store[asyncStorageKeys(lastEval.cad)] = DateToString(now)

\* the override interval configured for the cadence last evaluated
LastInterval == cfg.trackingIntervals[lastEval.cad]

\* C4: with an override interval I configured and a marker D whole seconds
\* old, the evaluator emits iff D > I: D = I does not emit, D = I + 1 does.
C4_StrictInterval ==
    (lastEval.cad # "none" /\ LastInterval # None /\ lastEval.last # None) =>
        LET D == differenceInSeconds(lastEval.at, lastEval.last) IN
        /\ D <= LastInterval => ~lastEval.emitted
        /\ D >= LastInterval + 1 => lastEval.emitted

\* C5: with no override interval and a marker present, the evaluator emits
\* iff the marker is strictly before the start of the current day, week,
\* month or year; a marker at or after that start does not emit.
C5_CalendarBoundary ==
    (lastEval.cad # "none" /\ LastInterval = None /\ lastEval.last # None) =>
        (lastEval.emitted <=>
            lastEval.last < startOf(lastEval.cad, lastEval.at))

\* a marker exactly at the start of the current year, in a later year than
\* the first: no event
C5_AtYearStart ==
    /\ lastEval.cad = "yearly"
    /\ LastInterval = None
    /\ lastEval.last > 0
    /\ lastEval.last = startOf("yearly", lastEval.at)
    /\ ~lastEval.emitted

\* C6: whenever an override interval is configured for a cadence, zero
\* included, the decision is the comparison of the elapsed seconds with it
\* and never the calendar comparison.
C6_IntervalPrecedence ==
    (lastEval.cad # "none" /\ LastInterval # None /\ lastEval.last # None) =>
        (lastEval.emitted <=>
            differenceInSeconds(lastEval.at, lastEval.last) > LastInterval)

\* C7: while the request of a <PERIOD>_ACTIVE_USER event is in flight, the
\* write of the marker has not been issued: its then-callback is still
\* waiting.
C7_WriteAfterSend ==
    \A i \in 1 .. Len(sends) :
        sends[i].type \in CadenceEvents => InMicro(ThenOf(sends[i]))

\* C8: when the request of an event fails, the promise track() returned for
\* it (and so trackCustomEvent's) is rejected, whatever logError is.
C8_FailureRejects ==
    \A f \in failed : f.promise = "rejected"

\* C9: startSession and endSession calls alternate, starting with the
\* startSession of init(): never two sessions open, never an endSession
\* without an open session.
C9_SessionsAlternate == sessionDepth \in {0, 1}

\* C10: with no reset, every SESSION_START carries the whole seconds from
\* the instant the previous endSession recorded to the start of the new
\* session, and null iff no session has ended before.
C10_TimeSinceLastSession ==
    (lastStart.n > 0 /\ nResets = 0) =>
        lastStart.tsls =
            IF lastStart.pe = None THEN None
            ELSE differenceInSeconds(lastStart.st, DateToString(lastStart.pe))

\* the pending continuations of one kind
Pending(k) == Cardinality({i \in 1 .. Len(tasks) : tasks[i].k = k})

\* SESSION_START events handed to fetch by this process
SessionStarts == nStarts - Pending("start")

InitEvents ==
    {"FIRST_OPEN", "SESSION_START"} \cup CadenceEvents

FreshDone ==
    /\ nFirstOpen = 1
    /\ \A c \in Cadences : Len(emits[c]) = 1
    /\ SessionStarts = 1
    /\ lastStart.tsls = None

\* C11: on a fresh install with the default configuration and no lifecycle
\* signal, init() eventually has emitted FIRST_OPEN, the four
\* <PERIOD>_ACTIVE_USER events and SESSION_START, each exactly once and
\* nothing else, SESSION_START with timeSinceLastSession = null.
C11_FreshInstall ==
    /\ [](cfg = defaultConfig =>
            /\ nFirstOpen <= 1
            /\ \A c \in Cadences : Len(emits[c]) <= 1
            /\ SessionStarts <= 1
            /\ \A i \in 1 .. Len(sends) :
                 /\ sends[i].type \in InitEvents
                 /\ sends[i].type = "SESSION_START" =>
                      sends[i].data["timeSinceLastSession"] = None
            /\ lastStart.n > 0 => lastStart.tsls = None)
    /\ (inited /\ cfg = defaultConfig) ~> FreshDone

C11_SixEmitted ==
    /\ cfg = defaultConfig
    /\ inited
    /\ FreshDone
    /\ tasks = <<>>
    /\ sends = <<>>

\* C12: when clearLuminItemsFromAsyncStorage() has settled, whatever was
\* under way when it was called (and nothing else having been called in
\* between), all six keys were absent at that moment, and the next cadence
\* evaluation finds every marker absent, as on a fresh install (so that
\* each event is emitted once).
C12_ResetLikeFresh ==
    (lastReset.n > 0 /\ lastReset.quiet) =>
        /\ lastReset.present = {}
        /\ lastReset.n = nResets =>
             \A i \in 1 .. Len(tasks) :
                 (tasks[i].k = "eval" /\ tasks[i].id = lastReset.evals + 1) =>
                     tasks[i].val = None

\* the trimmed token up to its first ':' and after it
HasColon(s) == \E i \in 1 .. Len(s) : s[i] = ":"

FirstColon(s) ==
    CHOOSE i \in 1 .. Len(s) : s[i] = ":" /\ \A j \in 1 .. i - 1 : s[j] # ":"

BeforeColon(s) == SubSeq(s, 1, FirstColon(s) - 1)

AfterColon(s) == SubSeq(s, FirstColon(s) + 1, Len(s))

\* a half of the token is empty or missing
HalfMissing(tok) ==
    LET s == trim(tok) IN
    \/ ~HasColon(s)
    \/ BeforeColon(s) = <<>>
    \/ AfterColon(s) = <<>>

\* C13: for a token with an empty or missing half, construction fails, and
\* then nothing is read or written in the store, nothing is sent and no
\* listener is registered.
C13_MalformedTokenFails ==
    /\ (instance.status # "new" /\ HalfMissing(instance.raw)) =>
           instance.status = "threw"
    /\ instance.status # "ok" =>
           /\ ~inited
           /\ tasks = <<>> /\ micro = <<>> /\ sends = <<>>
           /\ store = [k \in Keys |-> None]
           /\ nCustom = 0 /\ nEvals = 0 /\ nStarts = 0

\* "a: " has lost its second half once trimmed
C13_EmptySecretThrown ==
    /\ instance.raw = <<"a", ":", " ">>
    /\ instance.status = "threw"

\* C16: for a token "<a>:<rest>" with both parts non-empty, the tracker is
\* constructed with appId = <a> and the whole of <rest> as its secret, also
\* when <rest> contains ':', and every event carries that secret as appToken.
C16_SplitOnFirstColon ==
    (instance.status # "new" /\ ~HalfMissing(instance.raw)) =>
        /\ instance.status = "ok"
        /\ instance.id = BeforeColon(trim(instance.raw))
        /\ instance.token = AfterColon(trim(instance.raw))
        /\ \A i \in 1 .. Len(sends) :
             sends[i].appToken = AfterColon(trim(instance.raw))

\* C14: with automaticallyTrackActiveUsers false, init() on a store without
\* firstOpenTime still emits FIRST_OPEN and persists firstOpenTime, while no
\* <PERIOD>_ACTIVE_USER event is emitted and no cadence marker is written.
C14_FirstOpenWithoutAuto ==
    /\ [](~cfg.automaticallyTrackActiveUsers =>
            /\ \A c \in Cadences :
                 emits[c] = <<>> /\ store[asyncStorageKeys(c)] = None
            /\ \A i \in 1 .. Len(sends) : sends[i].type \notin CadenceEvents)
    /\ (inited /\ ~cfg.automaticallyTrackActiveUsers) ~>
           (nFirstOpen = 1 /\ store["firstOpenTime"] # None)

C14_FirstOpenOnly ==
    /\ ~cfg.automaticallyTrackActiveUsers
    /\ inited
    /\ tasks = <<>>
    /\ lastFirstOpen.emitted
    /\ store["firstOpenTime"] # None
    /\ \A c \in Cadences : emits[c] = <<>>

\* C15: whatever data object the caller passes, its own $info or $custom
\* included, every event record carries the $info object of the SDK, and
\* every record made by trackCustomEvent carries $custom = true.
C15_InjectedFields ==
    \A i \in 1 .. Len(sends) :
        /\ "$info" \in DOMAIN sends[i].data
        /\ sends[i].data["$info"] = SdkInfo
        /\ sends[i].type = "CUSTOM" =>
             /\ "$custom" \in DOMAIN sends[i].data
             /\ sends[i].data["$custom"] = TRUE

\* the evaluator at the head of the queue has a marker and its emit
\* condition is false now
HeadDeclines ==
    /\ tasks # <<>>
    /\ Head(tasks).k = "eval"
    /\ Head(tasks).val # None
    /\ ~timeCondition(Head(tasks).cad, Head(tasks).val, now)

\* C17: when an evaluator runs with a marker present and its emit condition
\* false, nothing is sent and nothing is written: every storage key keeps
\* its value and no write is left pending.
C17_NoEmitNoWrite ==
    [][(HeadDeclines /\ tasks' = Tail(tasks)) =>
          /\ store' = store
          /\ sends' = sends
          /\ micro' = micro
          /\ emits' = emits]_vars

\* an evaluator has declined and its marker is what it read
C17_Declined ==
    /\ lastEval.cad # "none"
    /\ lastEval.last # None
    /\ ~lastEval.emitted
    /\ store[asyncStorageKeys(lastEval.cad)] = lastEval.last
    /\ sends = <<>>

\* every key but the marker of cadence c keeps its value in this step
OnlyMarkerOf(c) ==
    \A k \in Keys \ {asyncStorageKeys(c)} : store'[k] = store[k]

\* C18: a step of the evaluator of one cadence (its resumption after the
\* read, its write after the send) leaves every key but that cadence's
\* marker unchanged; so after one trackActiveUser() at one instant the store
\* is the same whatever the order in which the four evaluators ran: each
\* marker is rewritten iff its own evaluator emitted.
C18_DisjointKeys ==
    /\ [][/\ \A i \in 1 .. Len(tasks) :
               (tasks[i].k = "eval" /\ tasks' = Remove(tasks, i)) =>
                   OnlyMarkerOf(tasks[i].cad)
          /\ (micro # <<>> /\ micro' = Tail(micro)) =>
                   OnlyMarkerOf(Head(micro).cad)]_vars
    /\ [](nEvals = 1 /\ nTicks = 0 /\ tasks = <<>> /\ micro = <<>> =>
            \A c \in Cadences :
                store[asyncStorageKeys(c)] =
                    IF ShouldEmit(c, lastEval.last, now)
                    THEN DateToString(now) ELSE lastEval.last)

\* the daily evaluator ran last, rewrote its marker, and the yearly marker
\* was kept
C18_DailyLast ==
    /\ nEvals = 1 /\ nTicks = 0
    /\ tasks = <<>> /\ micro = <<>>
    /\ lastEval.cad = "daily"
    /\ lastEval.emitted
    /\ store["lastDauTracked"] = DateToString(now)
    /\ store["lastYauTracked"] # DateToString(now)

\* C19: with no reset, no step makes the stored value of a key smaller (an
\* absent key counts as smaller than any instant): every write stores the
\* current instant and the clock does not go back.
C19_KeysNeverDecrease ==
    [][nResets' = 0 => \A k \in Keys : store'[k] >= store[k]]_vars

\* a marker and the end of the last session, both dating from instant 0,
\* have been rewritten a second or more later
C19_Rewritten ==
    /\ lastEval.cad # "none"
    /\ lastEval.last = 0
    /\ store[asyncStorageKeys(lastEval.cad)] >= TicksPerSec
    /\ lastStart.n > 0
    /\ lastStart.pe = 0
    /\ store["endOfLastSession"] >= TicksPerSec

\* the in-memory state of the tracker, its configuration, and what it has
\* handed to the transport or left to run
InMemory ==
    <<sessionStartTime, appState, inited, cfg, instance, sends, micro, emits,
      nFirstOpen, nStarts, nEvals>>

ResetCalled == nResets' = nResets + 1

ResetSettles == lastReset'.n = lastReset.n + 1

\* C20: clearLuminItemsFromAsyncStorage() removes the six keys and settles
\* in a later step, after the removals; neither its call nor its settling
\* emits an event or changes sessionStartTime, the tracked lifecycle state
\* or the configuration, and its settling changes nothing in the store.
C20_ResetOnlyDeletes ==
    [][/\ ResetCalled =>
            /\ \A k \in Keys : store'[k] = None
            /\ Len(tasks') = Len(tasks) + 1
            /\ tasks'[Len(tasks')].k = "reset"
            /\ lastReset' = lastReset
            /\ UNCHANGED InMemory
       /\ ResetSettles => UNCHANGED <<InMemory, store>>]_vars

\* a reset has settled on a store that held firstOpenTime and the end of a
\* session, during an open session
C20_ResetDone ==
    /\ lastReset.n = 1
    /\ nFirstOpen = 1
    /\ lastEnd # None
    /\ \A k \in Keys : store[k] = None
    /\ inited

\* the one failure so far is the rejected read of the evaluator of c
ReadFailed(c) ==
    /\ failed = {}
    /\ \E t \in lost : lost = {t} /\ t.k = "eval" /\ t.cad = c

\* the one failure so far is the rejected request of the event of c
SendFailed(c) ==
    /\ lost = {}
    /\ \E f \in failed : failed = {f} /\ f.type = EventType(c)

\* a second read or request has failed
FailedAgain == Cardinality(lost) + Cardinality(failed) > 1

\* nothing is waiting, and the first-open check, startSession and the
\* evaluators other than that of c have emitted
OthersDone(c) ==
    /\ tasks = <<>> /\ micro = <<>> /\ sends = <<>>
    /\ nFirstOpen = 1
    /\ lastStart.n > 0
    /\ \A d \in Cadences \ {c} : Len(emits[d]) >= 1

\* C21: on a fresh install, the rejected storage read of a cadence evaluator
\* emits nothing, writes nothing and leaves everything else that is waiting
\* in place; and when the read or the request of one cadence has failed,
\* then, unless something else fails too, the first-open check,
\* startSession and the other three evaluators all run and emit their
\* events.
C21_FailureIsolated ==
    /\ [][lost' # lost =>
            /\ tasks' = Tail(tasks)
            /\ UNCHANGED <<store, sends, micro, emits, firstOpenLog, lastStart,
                           lastEval>>]_vars
    /\ \A c \in Cadences :
         (ReadFailed(c) \/ SendFailed(c)) ~> (OthersDone(c) \/ FailedAgain)

\* the read of the daily evaluator was rejected: no DAILY_ACTIVE_USER and no
\* marker, while the five other events of init() went out
C21_DailyReadLost ==
    /\ ReadFailed("daily")
    /\ OthersDone("daily")
    /\ emits["daily"] = <<>>
    /\ store[asyncStorageKeys("daily")] = None
    /\ \A d \in Cadences \ {"daily"} : store[asyncStorageKeys(d)] # None

\* the startSession call of session n is still awaiting its storage read
StartWaiting(n) ==
    \E j \in 1 .. Len(tasks) : tasks[j].k = "start" /\ tasks[j].id = n

\* C22: when the SESSION_END of a session is handed to fetch, its
\* SESSION_START has been handed to fetch before: the startSession call of
\* that session is no longer awaiting its endOfLastSession read.
C22_StartBeforeEnd ==
    \A i \in 1 .. Len(sends) :
        sends[i].type = "SESSION_END" => ~StartWaiting(sends[i].id)

=============================================================================
